---- MODULE Spec2Model ----
(***************************************************************************)
(* syspac: package discovery (src/src/package.rs), change detection        *)
(* (src/src/git.rs) and the detect-changes command (src/src/main.rs) over  *)
(* a git working tree, and the fallback recipe parser                      *)
(* (src/src/pkgbuild.rs).                                                  *)
(*                                                                         *)
(* Strings are sequences of bytes (Rust String / OsString), so that        *)
(* str::starts_with, String ordering, OsStr::to_str and to_string_lossy    *)
(* are computed as the code computes them.  The byte alphabet is ASCII     *)
(* plus 0xFF, a byte that is never part of valid UTF-8.                    *)
(***************************************************************************)
EXTENDS Naturals, Sequences, FiniteSets

VARIABLES wt, commits, fault, line, out

vars == <<wt, commits, fault, line, out>>

(***************************************************************************)
(* Bounds                                                                  *)
(***************************************************************************)
\* number of directories the environment creates in the working tree
MaxDirs == 3

\* length of the text after the prefix of a recipe line
MaxLen == 3

(***************************************************************************)
(* Byte strings                                                            *)
(***************************************************************************)
S_foo == <<102, 111, 111>>                                   \* "foo"
S_foobar == <<102, 111, 111, 98, 97, 114>>                   \* "foobar"
S_bar == <<98, 97, 114>>                                     \* "bar"
S_baz == <<98, 97, 122>>                                     \* "baz"
S_x == <<120>>                                               \* "x"
S_hid == <<46, 104>>                                         \* ".h"
S_hidraw == <<46, 255>>                                      \* "." 0xFF
S_raw == <<255>>                                             \* 0xFF
S_target == <<116, 97, 114, 103, 101, 116>>                  \* "target"
S_node_modules == <<110, 111, 100, 101, 95, 109, 111, 100, 117, 108, 101, 115>>
S_build_container == <<98, 117, 105, 108, 100, 45, 99, 111, 110, 116, 97, 105, 110, 101, 114>>
S_repo == <<114, 101, 112, 111>>                             \* "repo"
S_dotgit == <<46, 103, 105, 116>>                            \* ".git"
S_gitmodules == <<46, 103, 105, 116, 109, 111, 100, 117, 108, 101, 115>>  \* ".gitmodules"
S_PKGBUILD == <<80, 75, 71, 66, 85, 73, 76, 68>>             \* "PKGBUILD"
S_unknown == <<117, 110, 107, 110, 111, 119, 110>>           \* "unknown"
S_slash == <<47>>                                            \* "/"
S_dot == <<46>>                                              \* "."
S_replacement == <<239, 191, 189>>                           \* U+FFFD in UTF-8

\* the repository root given on the command line, and a path that holds none
RepoRoot == <<47, 114>>                                      \* "/r"
Nonexistent == <<47, 110>>                                   \* "/n"

\* OsStr::to_str: Some only for valid UTF-8 (here: no 0xFF byte)
to_str_ok(os) == \A i \in 1..Len(os) : os[i] < 128

\* OsStr::to_string_lossy: every invalid byte becomes U+FFFD
RECURSIVE to_string_lossy(_)
to_string_lossy(os) ==
    IF os = <<>> THEN <<>>
    ELSE (IF Head(os) < 128 THEN <<Head(os)>> ELSE S_replacement)
         \o to_string_lossy(Tail(os))

\* str::starts_with(&String)
starts_with(s, prefix) ==
    /\ Len(prefix) <= Len(s)
    /\ SubSeq(s, 1, Len(prefix)) = prefix

\* the path lies inside the directory: directory, "/", further segments
InsideDir(c, dir) == Len(c) > Len(dir) + 1 /\ starts_with(c, dir \o S_slash)

\* Ord for String: bytewise lexicographic, a proper prefix is smaller
RECURSIVE StrLess(_, _)
StrLess(a, b) ==
    IF b = <<>> THEN FALSE
    ELSE IF a = <<>> THEN TRUE
    ELSE IF Head(a) # Head(b) THEN Head(a) < Head(b)
    ELSE StrLess(Tail(a), Tail(b))

StrLeq(a, b) == a = b \/ StrLess(a, b)

\* Path::join over components, as raw bytes: "a/b/c"
RECURSIVE JoinPath(_)
JoinPath(p) ==
    IF p = <<>> THEN <<>>
    ELSE IF Len(p) = 1 THEN p[1]
    ELSE p[1] \o S_slash \o JoinPath(Tail(p))

\* Path::to_string_lossy().to_string()
PathStr(p) == to_string_lossy(JoinPath(p))

\* Path::file_name().and_then(|n| n.to_str()).unwrap_or("unknown")
FileNameOrUnknown(p) ==
    IF to_str_ok(p[Len(p)]) THEN p[Len(p)] ELSE S_unknown

\* all orders in which an enumeration can deliver the elements of S
RECURSIVE Perms(_)
Perms(S) ==
    IF S = {} THEN {<<>>}
    ELSE UNION {{<<x>> \o q : q \in Perms(S \ {x})} : x \in S}

(***************************************************************************)
(* The working tree.  It is a set of directories ("sites"); a site is      *)
(*   path    its components below the repository root                      *)
(*   recipe  a PKGBUILD file lies directly in it                           *)
(*   marker  a .git file or directory lies directly in it                  *)
(*   sub     the name under which it is registered as a submodule,         *)
(*           or NoSub                                                      *)
(*   data    the content of the plain file "x" directly in it (1 or 2),    *)
(*           or 0 when it holds no such file                               *)
(*   head    the commit the repository in it has checked out (1 or 2), or  *)
(*           0 without a .git entry                                        *)
(*   present FALSE for what rm -r leaves of a registered submodule: its    *)
(*           record in .gitmodules, without a directory of its own         *)
(* There is at most one site per path.  The intermediate directories of a  *)
(* present site exist and are empty unless they are sites themselves.  The *)
(* root holds the repository's own .git directory, and the file            *)
(* .gitmodules while it holds the record of a submodule.                   *)
(***************************************************************************)
NoSub == <<>>

Site(p, r, m, s, d) ==
    [path |-> p, recipe |-> r, marker |-> m, sub |-> s, data |-> d,
     head |-> IF m THEN 1 ELSE 0, present |-> TRUE]

\* the record of a submodule whose directory was removed
Gone(p, s) ==
    [path |-> p, recipe |-> FALSE, marker |-> FALSE, sub |-> s, data |-> 0,
     head |-> 0, present |-> FALSE]

\* a directory without files
EmptyDir(p) == Site(p, FALSE, FALSE, NoSub, 0)

HasFiles(s) == s.recipe \/ s.marker \/ s.data # 0

Prefixes(p) == {SubSeq(p, 1, n) : n \in 1..Len(p)}

\* p lies at or below the directory q
Below(p, q) == Len(p) >= Len(q) /\ SubSeq(p, 1, Len(q)) = q

Dirs(t) == UNION {Prefixes(s.path) : s \in {s \in t : s.present}}

\* one representation per working tree: an empty directory that a present
\* site below it implies is not kept as a site
Canon(t) ==
    {s \in t : ~(/\ s = EmptyDir(s.path)
                 /\ \E o \in t : o.present /\ o.path # s.path /\ Below(o.path, s.path))}

\* Path::is_dir
IsDir(t, p) == p \in Dirs(t) \/ p = <<S_dotgit>>

\* path.join("PKGBUILD").exists()
PkgbuildExists(t, p) == \E s \in t : s.path = p /\ s.recipe

\* fs::read_dir: the names of the entries of directory p (<<>> is the root)
ReadDir(t, p) ==
    {d[Len(p) + 1] : d \in {e \in Dirs(t) : Len(e) = Len(p) + 1 /\ SubSeq(e, 1, Len(p)) = p}}
    \cup (IF p = <<>> THEN {S_dotgit} ELSE {})
    \cup (IF p = <<>> /\ (\E s \in t : s.sub # NoSub) THEN {S_gitmodules} ELSE {})
    \cup (IF \E s \in t : s.path = p /\ s.data # 0 THEN {S_x} ELSE {})
    \cup (IF \E s \in t : s.path = p /\ s.recipe THEN {S_PKGBUILD} ELSE {})
    \cup (IF \E s \in t : s.path = p /\ s.marker THEN {S_dotgit} ELSE {})

\* Repository::submodules: the submodules .gitmodules records, in any
\* order.  (libgit2 adds the gitlinks of the index and of HEAD that
\* .gitmodules does not record only when .gitmodules exists: that takes a
\* commit with a gitlink beside the record of another path, which no
\* specification here reaches.)
Submodules(t) == {s \in t : s.sub # NoSub}

(***************************************************************************)
(* Failures of the environment.  fault is the one condition that holds:    *)
(*   "none"        every call below succeeds                               *)
(*   "submodules"  Repository::submodules fails (unreadable .gitmodules)   *)
(*   "read_root"   fs::read_dir of the repository root fails               *)
(*   "root_entry"  the iterator of read_dir(root) yields an Err entry      *)
(*   "read_child"  fs::read_dir of the directory UnreadableDir fails (its  *)
(*                 read permission is gone, its entries are still found)   *)
(*   "head"        HEAD names a branch without commit (checkout --orphan); *)
(*                 the commits made before stay in the object database     *)
(***************************************************************************)
UnreadableDir == <<S_foo>>

\* repo.submodules() is Ok
SubmodulesOk == fault # "submodules"

\* fs::read_dir(p) is Ok
ReadDirOk(p) ==
    /\ ~(p = <<>> /\ fault = "read_root")
    /\ ~(p = UnreadableDir /\ fault = "read_child")

\* every entry of read_dir(repo_path) is Ok
RootEntriesOk == fault # "root_entry"

\* Repository::open succeeds at the repository root only
RepositoryOpen(repo_path) == repo_path = RepoRoot

(***************************************************************************)
(* package.rs                                                              *)
(***************************************************************************)
Package(n, p, b, s) == [name |-> n, path |-> p, pkgbuild_path |-> b, is_submodule |-> s]

\* repo_path.join(path).join("PKGBUILD").to_string_lossy()
PkgbuildPath(repo_path, p) ==
    to_string_lossy(repo_path \o S_slash \o JoinPath(p \o <<S_PKGBUILD>>))

is_submodule_dir(t, p) == \E s \in t : s.path = p /\ s.marker

\* the name filter of the walk: hidden and common non-package directories;
\* a name that is not UTF-8 (to_str gives None) is not filtered
IsSkippedName(name) ==
    /\ to_str_ok(name)
    /\ \/ starts_with(name, S_dot)
       \/ name = S_target
       \/ name = S_node_modules
       \/ name = S_build_container
       \/ name = S_repo

\* Submodule::name(), else the last path component, else "unknown"
SubmoduleName(s) ==
    IF to_str_ok(s.sub) THEN s.sub ELSE FileNameOrUnknown(s.path)

\* the loop of find_submodule_packages over the submodules in the order subs
RECURSIVE SubmoduleLoop(_, _, _)
SubmoduleLoop(t, repo_path, subs) ==
    IF subs = <<>> THEN <<>>
    ELSE LET s == Head(subs)
             rest == SubmoduleLoop(t, repo_path, Tail(subs))
         IN  IF PkgbuildExists(t, s.path)
             THEN <<Package(SubmoduleName(s), PathStr(s.path),
                            PkgbuildPath(repo_path, s.path), TRUE)>> \o rest
             ELSE rest

\* find_submodule_packages: the vectors it can return when repo.submodules()
\* succeeds, one for every order in which it can list the submodules
find_submodule_packages(t, repo_path) ==
    {SubmoduleLoop(t, repo_path, subs) : subs \in Perms(Submodules(t))}

\* mutant: the grandchild loop without its !is_submodule_dir test
RECURSIVE WalkGrandchildren_nomarker(_, _, _, _)
WalkGrandchildren_nomarker(t, repo_path, c, entries) ==
    IF entries = <<>> THEN <<>>
    ELSE LET sub_path == <<c, Head(entries)>>
             rest == WalkGrandchildren_nomarker(t, repo_path, c, Tail(entries))
         IN  IF IsDir(t, sub_path) /\ PkgbuildExists(t, sub_path)
             THEN <<Package(FileNameOrUnknown(sub_path), PathStr(sub_path),
                            PkgbuildPath(repo_path, sub_path), FALSE)>> \o rest
             ELSE rest

\* mutant: the grandchild loop going one level further down when the
\* grandchild holds no recipe
RECURSIVE DeeperLoop(_, _, _, _)
DeeperLoop(t, repo_path, sub_path, entries) ==
    IF entries = <<>> THEN <<>>
    ELSE LET deep == sub_path \o <<Head(entries)>>
             rest == DeeperLoop(t, repo_path, sub_path, Tail(entries))
         IN  IF IsDir(t, deep) /\ ~is_submodule_dir(t, deep) /\ PkgbuildExists(t, deep)
             THEN <<Package(FileNameOrUnknown(deep), PathStr(deep),
                            PkgbuildPath(repo_path, deep), FALSE)>> \o rest
             ELSE rest

RECURSIVE WalkGrandchildren_deeper(_, _, _, _)
WalkGrandchildren_deeper(t, repo_path, c, entries) ==
    IF entries = <<>> THEN <<>>
    ELSE LET sub_path == <<c, Head(entries)>>
             rest == WalkGrandchildren_deeper(t, repo_path, c, Tail(entries))
         IN  IF IsDir(t, sub_path) /\ ~is_submodule_dir(t, sub_path)
             THEN IF PkgbuildExists(t, sub_path)
                  THEN <<Package(FileNameOrUnknown(sub_path), PathStr(sub_path),
                                 PkgbuildPath(repo_path, sub_path), FALSE)>> \o rest
                  ELSE DeeperLoop(t, repo_path, sub_path,
                                  CHOOSE e \in Perms(ReadDir(t, sub_path)) : TRUE) \o rest
             ELSE rest

\* the inner loop of find_direct_packages over the entries of child c
RECURSIVE WalkGrandchildren(_, _, _, _)
WalkGrandchildren(t, repo_path, c, entries) ==
    IF entries = <<>> THEN <<>>
    ELSE LET sub_path == <<c, Head(entries)>>
             rest == WalkGrandchildren(t, repo_path, c, Tail(entries))
         IN  IF /\ IsDir(t, sub_path)
                /\ ~is_submodule_dir(t, sub_path)
                /\ PkgbuildExists(t, sub_path)
             THEN <<Package(FileNameOrUnknown(sub_path), PathStr(sub_path),
                            PkgbuildPath(repo_path, sub_path), FALSE)>> \o rest
             ELSE rest

\* one iteration of the outer loop of find_direct_packages, root entry c:
\* the vectors it can push, one for every order of read_dir(c)
WalkChild(t, repo_path, c) ==
    LET path == <<c>> IN
    IF is_submodule_dir(t, path) THEN {<<>>}
    ELSE IF IsSkippedName(c) THEN {<<>>}
    ELSE IF ~IsDir(t, path) THEN {<<>>}
    ELSE IF PkgbuildExists(t, path)
         THEN {<<Package(FileNameOrUnknown(path), PathStr(path),
                         PkgbuildPath(repo_path, path), FALSE)>>}
    ELSE IF ~ReadDirOk(path) THEN {<<>>}
    ELSE {WalkGrandchildren(t, repo_path, c, entries) :
             entries \in Perms(ReadDir(t, path))}

\* the outer loop over the root entries in the order ro; W[c] is what the
\* iteration for root entry c can push
RECURSIVE WalkRoot(_, _)
WalkRoot(W, ro) ==
    IF ro = <<>> THEN {<<>>}
    ELSE {a \o b : a \in W[Head(ro)], b \in WalkRoot(W, Tail(ro))}

\* find_direct_packages: the vectors it can return when the root listing
\* and its entries are read, over every order in which read_dir lists the
\* root.  An iteration that pushes nothing leaves
\* the vector as it is, so the orders of the other entries give them all.
find_direct_packages(t, repo_path) ==
    LET W == [c \in ReadDir(t, <<>>) |-> WalkChild(t, repo_path, c)]
        pushing == {c \in ReadDir(t, <<>>) : W[c] # {<<>>}}
    IN  UNION {WalkRoot(W, ro) : ro \in Perms(pushing)}

\* mutant: the comparison of the sort taken on the path
InsertByPath(acc, p) ==
    LET k == Cardinality({i \in 1..Len(acc) : StrLeq(acc[i].path, p.path)})
    IN  SubSeq(acc, 1, k) \o <<p>> \o SubSeq(acc, k + 1, Len(acc))

\* Vec::sort_by(|a, b| a.name.cmp(&b.name)): stable
InsertByName(acc, p) ==
    LET k == Cardinality({i \in 1..Len(acc) : StrLeq(acc[i].name, p.name)})
    IN  SubSeq(acc, 1, k) \o <<p>> \o SubSeq(acc, k + 1, Len(acc))

RECURSIVE SortByName(_)
SortByName(s) ==
    IF s = <<>> THEN <<>>
    ELSE InsertByName(SortByName(SubSeq(s, 1, Len(s) - 1)), s[Len(s)])

\* find_all_packages: Err when the repository does not open, when
\* find_submodule_packages fails on repo.submodules() or when
\* find_direct_packages fails on the root listing or on one of its entries
\* (each propagated with ?); else the sorted merge.  The set of the results
\* the enumeration orders allow.
find_all_packages(t, repo_path) ==
    IF ~RepositoryOpen(repo_path)
    THEN {[ok |-> FALSE, err |-> "open", packages |-> <<>>]}
    ELSE IF ~SubmodulesOk
    THEN {[ok |-> FALSE, err |-> "submodules", packages |-> <<>>]}
    ELSE IF ~ReadDirOk(<<>>)
    THEN {[ok |-> FALSE, err |-> "read_root", packages |-> <<>>]}
    ELSE IF ~RootEntriesOk
    THEN {[ok |-> FALSE, err |-> "root_entry", packages |-> <<>>]}
    ELSE {[ok |-> TRUE, err |-> "", packages |-> SortByName(s \o d)] :
             s \in find_submodule_packages(t, repo_path),
             d \in find_direct_packages(t, repo_path)}

(***************************************************************************)
(* The commits.  commits holds the trees of the first-parent chain that    *)
(* the program can reach: <<>> is an unborn HEAD, <<h>> a root commit,     *)
(* <<p, h>> HEAD with its first parent.  A tree is the set of the entries  *)
(* it tracks, each a raw path with its content: the files of the sites,    *)
(* and one gitlink entry for a directory that is a repository of its own.  *)
(* The index is the tree of the last commit made.                          *)
(***************************************************************************)
\* a tree entry: its raw path, its mode (100644 a file, 160000 a gitlink)
\* and the bytes of its blob or, for a gitlink, the commit of the nested
\* repository
Entry(p, m, c) == [path |-> p, mode |-> m, content |-> c]

\* the text of .gitmodules: one record per registered submodule, here in
\* the order of the paths
RECURSIVE GitmodulesText(_)
GitmodulesText(subs) ==
    IF subs = {} THEN <<>>
    ELSE LET s == CHOOSE x \in subs :
                     \A y \in subs : StrLeq(JoinPath(x.path), JoinPath(y.path))
         IN  s.sub \o <<61>> \o JoinPath(s.path) \o <<10>>
             \o GitmodulesText(subs \ {s})

\* the commit the repository in the directory d has checked out
NestedCommit(t, d) == <<(CHOOSE s \in t : s.path = d).head>>

\* git add -A below the directory d with the index idx: the files of d,
\* and for each directory c in d
\*   - the gitlink the index tracks at c, kept while the directory exists
\*     (moved to the nested commit when c holds a .git), nothing below it;
\*   - else a new gitlink when c holds a .git and the index tracks nothing
\*     below c;
\*   - else the content of c
RECURSIVE AddDir(_, _, _)
AddDir(idx, t, d) ==
    LET files ==
            UNION {(IF s.data # 0
                    THEN {Entry(JoinPath(d \o <<S_x>>), "100644", <<s.data>>)} ELSE {})
                   \cup (IF s.recipe
                         THEN {Entry(JoinPath(d \o <<S_PKGBUILD>>), "100644", <<1>>)} ELSE {})
                   : s \in {s \in t : s.path = d}}
        children == {c \in Dirs(t) : Len(c) = Len(d) + 1 /\ Below(c, d)}
        tracked(c) == {e \in idx : e.mode = "160000" /\ e.path = JoinPath(c)}
    IN  files \cup
        UNION {IF tracked(c) # {}
               THEN {Entry(JoinPath(c), "160000",
                           IF is_submodule_dir(t, c) THEN NestedCommit(t, c)
                           ELSE e.content) : e \in tracked(c)}
               ELSE IF /\ is_submodule_dir(t, c)
                       /\ \A e \in idx : ~InsideDir(e.path, JoinPath(c))
               THEN {Entry(JoinPath(c), "160000", NestedCommit(t, c))}
               ELSE AddDir(idx, t, c)
               : c \in children}

\* git add -A && git commit: the tree of the commit, with the index idx
\* before it
TreeOf(idx, t) ==
    AddDir(idx, t, <<>>)
    \cup (IF Submodules(t) # {}
          THEN {Entry(S_gitmodules, "100644", GitmodulesText(Submodules(t)))} ELSE {})

\* the index: what the last git add -A && git commit tracked (git checkout
\* --orphan keeps it)
Index(cs) == IF cs = <<>> THEN {} ELSE cs[Len(cs)]

\* Option<&str>
None == [some |-> FALSE, ref |-> "", oid |-> 0]
SomeRef(r) == [some |-> TRUE, ref |-> r, oid |-> 0]
SomeOid(i) == [some |-> TRUE, ref |-> "oid", oid |-> i]

\* Repository::head().peel_to_commit(): fails on an unborn HEAD
head_ok(cs) == Len(cs) >= 1 /\ fault # "head"

\* Repository::revparse_single: the object a revision text names
revparse_single(cs, r) ==
    IF r.ref = "oid" /\ r.oid \in 1..Len(cs)
        THEN [ok |-> TRUE, kind |-> "commit", at |-> r.oid]
    ELSE IF r.ref = "HEAD" /\ head_ok(cs)
        THEN [ok |-> TRUE, kind |-> "commit", at |-> Len(cs)]
    ELSE IF r.ref = "HEAD~1" /\ head_ok(cs) /\ Len(cs) >= 2
        THEN [ok |-> TRUE, kind |-> "commit", at |-> Len(cs) - 1]
    ELSE IF r.ref = "HEAD^{tree}" /\ head_ok(cs)
        THEN [ok |-> TRUE, kind |-> "tree", at |-> Len(cs)]
    ELSE [ok |-> FALSE, kind |-> "", at |-> 0]

\* Object::peel_to_commit
peel_to_commit_ok(obj) == obj.kind = "commit"

(***************************************************************************)
(* git.rs                                                                  *)
(***************************************************************************)
\* get_head_parent: Ok(parent oid), or Err without HEAD or without parent
get_head_parent(cs) ==
    IF ~head_ok(cs) THEN [ok |-> FALSE, oid |-> 0]
    ELSE IF Len(cs) < 2 THEN [ok |-> FALSE, oid |-> 0]
    ELSE [ok |-> TRUE, oid |-> Len(cs) - 1]

\* Repository::diff_tree_to_tree without rename detection: one delta per
\* path that was added, deleted or modified, both sides naming that path
Deltas(base_tree, head_tree) ==
    {[old_file |-> e.path, new_file |-> e.path] :
        e \in (base_tree \ head_tree) \cup (head_tree \ base_tree)}

\* candidate_paths of a delta: new side, then old side, lossily decoded
CandidatePaths(delta) ==
    {to_string_lossy(delta.new_file), to_string_lossy(delta.old_file)}

\* the inner for loop with its break: the first package, in the order of
\* the slice, whose path the candidate starts with; 0 when there is none
FirstOwner(path_str, packages) ==
    LET hits == {i \in 1..Len(packages) : starts_with(path_str, packages[i].path)}
    IN  IF hits = {} THEN 0
        ELSE CHOOSE i \in hits : \A j \in hits : i <= j

\* changed_packages: the HashSet after the loop over the deltas
ChangedSet(base_tree, head_tree, packages) ==
    {packages[FirstOwner(c, packages)].name :
        c \in {c \in UNION {CandidatePaths(d) : d \in Deltas(base_tree, head_tree)} :
                  FirstOwner(c, packages) # 0}}

\* Vec<String>::sort
InsertStr(acc, n) ==
    LET k == Cardinality({i \in 1..Len(acc) : StrLeq(acc[i], n)})
    IN  SubSeq(acc, 1, k) \o <<n>> \o SubSeq(acc, k + 1, Len(acc))

RECURSIVE SortStr(_)
SortStr(s) ==
    IF s = <<>> THEN <<>>
    ELSE InsertStr(SortStr(SubSeq(s, 1, Len(s) - 1)), s[Len(s)])

\* mutant: the collected HashSet returned without result.sort()
find_changed_packages_unsorted(base_tree, head_tree, packages) ==
    Perms(ChangedSet(base_tree, head_tree, packages))

\* find_changed_packages_between_commits: the HashSet collected in any
\* iteration order, then sorted
find_changed_packages_between_commits(base_tree, head_tree, packages) ==
    {SortStr(hs) : hs \in Perms(ChangedSet(base_tree, head_tree, packages))}

\* mutant: the full rebuild returning the paths
PathsOf(packages) == [i \in 1..Len(packages) |-> packages[i].path]

\* all_packages.iter().map(|p| p.name.clone()).collect()
NamesOf(packages) == [i \in 1..Len(packages) |-> packages[i].name]

Err(e, all) ==
    [ok |-> FALSE, err |-> e, mode |-> "", names |-> <<>>, all_packages |-> all]
Ok(m, n, all) ==
    [ok |-> TRUE, err |-> "", mode |-> m, names |-> n, all_packages |-> all]

\* mutant: a base ref that does not resolve falls back to the full rebuild
DetectWith_fallback(cs, base_ref, all) ==
    IF ~all.ok THEN {Err(all.err, <<>>)}
    ELSE IF ~base_ref.some /\ ~get_head_parent(cs).ok
        THEN {Ok("full", NamesOf(all.packages), all.packages)}
    ELSE LET base == IF base_ref.some THEN base_ref
                     ELSE SomeOid(get_head_parent(cs).oid)
             base_object == revparse_single(cs, base)
         IN  IF ~base_object.ok \/ ~peel_to_commit_ok(base_object)
                 THEN {Ok("full", NamesOf(all.packages), all.packages)}
             ELSE IF ~head_ok(cs) THEN {Err("head", all.packages)}
             ELSE {Ok("diff", n, all.packages) :
                      n \in find_changed_packages_between_commits(
                                cs[base_object.at], cs[Len(cs)], all.packages)}

\* mutant: HEAD is not read again after the base resolved; the last commit
\* made stands in for it
DetectWith_nohead(cs, base_ref, all) ==
    IF ~all.ok THEN {Err(all.err, <<>>)}
    ELSE IF ~base_ref.some /\ ~get_head_parent(cs).ok
        THEN {Ok("full", NamesOf(all.packages), all.packages)}
    ELSE LET base == IF base_ref.some THEN base_ref
                     ELSE SomeOid(get_head_parent(cs).oid)
             base_object == revparse_single(cs, base)
         IN  IF ~base_object.ok THEN {Err("parse_base", all.packages)}
             ELSE IF ~peel_to_commit_ok(base_object) THEN {Err("peel_base", all.packages)}
             ELSE {Ok("diff", n, all.packages) :
                      n \in find_changed_packages_between_commits(
                                cs[base_object.at], cs[Len(cs)], all.packages)}

\* the rest of detect_changed_packages once find_all_packages returned all
DetectWith(cs, base_ref, all) ==
    IF ~all.ok THEN {Err(all.err, <<>>)}
    ELSE IF ~base_ref.some /\ ~get_head_parent(cs).ok
        THEN {Ok("full", NamesOf(all.packages), all.packages)}
    ELSE LET base == IF base_ref.some THEN base_ref
                     ELSE SomeOid(get_head_parent(cs).oid)
             base_object == revparse_single(cs, base)
         IN  IF ~base_object.ok THEN {Err("parse_base", all.packages)}
             ELSE IF ~peel_to_commit_ok(base_object) THEN {Err("peel_base", all.packages)}
             ELSE IF ~head_ok(cs) THEN {Err("head", all.packages)}
             ELSE {Ok("diff", n, all.packages) :
                      n \in find_changed_packages_between_commits(
                                cs[base_object.at], cs[Len(cs)], all.packages)}

\* detect_changed_packages: the results it can return
detect_changed_packages(t, cs, repo_path, base_ref) ==
    IF ~RepositoryOpen(repo_path) THEN {Err("open", <<>>)}
    ELSE UNION {DetectWith(cs, base_ref, all) : all \in find_all_packages(t, repo_path)}

(***************************************************************************)
(* main.rs                                                                 *)
(***************************************************************************)
\* Vec<String>::contains
Contains(v, x) == \E i \in 1..Len(v) : v[i] = x

\* all_packages.into_iter().filter(|p| changed_names.contains(&p.name))
FilterChanged(all_packages, changed_names) ==
    LET Keep(p) == Contains(changed_names, p.name)
    IN  SelectSeq(all_packages, Keep)

\* packages.iter().map(|p| if paths { p.path } else { p.name }).collect()
OutputOf(packages, paths) ==
    [i \in 1..Len(packages) |->
        IF paths THEN packages[i].path ELSE packages[i].name]

\* the detect-changes command up to its output vector (main.rs:74-99): the
\* results it can have.  changed is the result of detect_changed_packages (absent with
\* --all), all_packages that of the command's own find_all_packages call.
CommandResult(ok, err, changed, all_packages, packages, paths) ==
    [ok |-> ok, err |-> err, mode |-> changed.mode, names |-> changed.names,
     all_packages |-> all_packages, printed |-> packages,
     output |-> OutputOf(packages, paths)]

CommandPackages(t, cs, repo_path, base_ref, all, paths) ==
    IF all
    THEN {IF a.ok
          THEN CommandResult(TRUE, "", Ok("", <<>>, <<>>), a.packages, a.packages, paths)
          ELSE CommandResult(FALSE, a.err, Ok("", <<>>, <<>>), <<>>, <<>>, paths) :
             a \in find_all_packages(t, repo_path)}
    ELSE UNION {
           IF ~changed.ok
           THEN {CommandResult(FALSE, changed.err, changed, <<>>, <<>>, paths)}
           ELSE {IF a.ok
                 THEN CommandResult(TRUE, "", changed, a.packages,
                          FilterChanged(a.packages, changed.names), paths)
                 ELSE CommandResult(FALSE, a.err, changed, <<>>, <<>>, paths) :
                    a \in find_all_packages(t, repo_path)} :
           changed \in detect_changed_packages(t, cs, repo_path, base_ref)}

\* the formats the command prints in
Formats == {"json", "space"}

\* the whole command: with the packages and the output vector computed, an
\* unknown format fails it and nothing is printed
detect_changes_command(t, cs, repo_path, base_ref, all, paths, format) ==
    {IF r.ok /\ format \notin Formats
     THEN [r EXCEPT !.ok = FALSE, !.err = "format"]
     ELSE r :
        r \in CommandPackages(t, cs, repo_path, base_ref, all, paths)}

(***************************************************************************)
(* pkgbuild.rs                                                             *)
(***************************************************************************)
S_pkgver == <<112, 107, 103, 118, 101, 114, 61>>             \* "pkgver="
S_pkgrel == <<112, 107, 103, 114, 101, 108, 61>>             \* "pkgrel="
DoubleQuote == 34
SingleQuote == 39

\* char::is_whitespace on the ASCII range
IsWhitespace(b) == b \in {9, 10, 11, 12, 13, 32}

\* str::trim
RECURSIVE trim_start(_)
trim_start(v) ==
    IF v # <<>> /\ IsWhitespace(Head(v)) THEN trim_start(Tail(v)) ELSE v

RECURSIVE trim_end(_)
trim_end(v) ==
    IF v # <<>> /\ IsWhitespace(v[Len(v)])
    THEN trim_end(SubSeq(v, 1, Len(v) - 1)) ELSE v

trim(v) == trim_end(trim_start(v))

\* str::starts_with(char), str::ends_with(char)
starts_with_char(v, c) == v # <<>> /\ Head(v) = c
ends_with_char(v, c) == v # <<>> /\ v[Len(v)] = c

\* extract_value: the String returned, or the panic of the slice
\* value[1..value.len() - 1] when its start lies behind its end
extract_value(l, prefix) ==
    LET value == trim(SubSeq(l, Len(prefix) + 1, Len(l))) IN
    IF \/ starts_with_char(value, DoubleQuote) /\ ends_with_char(value, DoubleQuote)
       \/ starts_with_char(value, SingleQuote) /\ ends_with_char(value, SingleQuote)
    THEN IF 1 > Len(value) - 1
         THEN [panic |-> TRUE, value |-> <<>>]
         ELSE [panic |-> FALSE, value |-> SubSeq(value, 2, Len(value) - 1)]
    ELSE [panic |-> FALSE, value |-> value]

(***************************************************************************)
(* State machine.  While no command runs (out = NoOut) the environment     *)
(* edits the working tree and commits.  A run of list-packages             *)
(* (find_all_packages) or of detect-changes (detect_changed_packages)      *)
(* leaves its result in out until the process exits.  Spec is change       *)
(* detection over a few directories and their commits; SpecDiscover is     *)
(* package discovery over a larger choice of directories; SpecCommand is   *)
(* the detect-changes command of main.rs; SpecExtract is extract_value     *)
(* over the recipe lines in line.                                          *)
(***************************************************************************)
NoOut ==
    [op |-> "none", repo_path |-> <<>>, base_ref |-> None, packages |-> <<>>,
     ok |-> FALSE, err |-> "", mode |-> "", names |-> <<>>,
     all |-> FALSE, paths |-> FALSE, printed |-> <<>>, output |-> <<>>,
     format |-> "", prefix |-> <<>>, panic |-> FALSE, value |-> <<>>]

\* the directories the environment works with when changes are detected
DetectSites ==
    {Site(<<S_foo>>, TRUE, FALSE, NoSub, d) : d \in 1..2}
    \cup {Site(<<S_foobar>>, TRUE, FALSE, NoSub, 1)}
    \cup {[Site(<<S_foobar>>, TRUE, TRUE, S_foo, 1) EXCEPT !.head = h] : h \in 1..2}
    \cup {Site(<<S_foobar, S_foo>>, TRUE, FALSE, NoSub, 1)}

\* the directories the environment works with when packages are listed
WalkSites ==
    {Site(<<S_foo>>, FALSE, FALSE, NoSub, 1),
     Site(<<S_foo>>, TRUE, FALSE, NoSub, 0),
     Site(<<S_foo>>, TRUE, TRUE, NoSub, 0),
     Site(<<S_foo>>, TRUE, TRUE, S_foo, 0),
     Site(<<S_foo, S_bar>>, TRUE, FALSE, NoSub, 0),
     Site(<<S_foo, S_bar>>, TRUE, TRUE, NoSub, 0),
     Site(<<S_foo, S_bar>>, TRUE, TRUE, S_raw, 0),
     Site(<<S_foo, S_raw>>, TRUE, FALSE, NoSub, 0),
     Site(<<S_foo, S_bar, S_baz>>, TRUE, FALSE, NoSub, 0),
     Site(<<S_foo, S_bar, S_baz>>, TRUE, TRUE, S_baz, 0),
     Site(<<S_foobar, S_bar>>, TRUE, FALSE, NoSub, 0),
     Site(<<S_foobar>>, TRUE, TRUE, NoSub, 0),
     Site(<<S_raw>>, TRUE, FALSE, NoSub, 0),
     Site(<<S_hidraw>>, TRUE, FALSE, NoSub, 0)}
    \cup {Site(<<c>>, TRUE, FALSE, NoSub, 0) :
             c \in {S_hid, S_target, S_node_modules, S_build_container, S_repo}}
    \cup {Site(<<c, S_bar>>, TRUE, FALSE, NoSub, 0) : c \in {S_hid, S_target}}

RepoPaths == {RepoRoot, Nonexistent}

BaseRefs ==
    {None, SomeOid(1), SomeRef("HEAD^{tree}"), SomeRef("nosuchref")}

\* the arguments detect_changed_packages is called with
DetectArgs ==
    {<<RepoRoot, b>> : b \in BaseRefs} \cup {<<Nonexistent, None>>}

\* the failures the environment can bring about
ListFaults == {"submodules", "read_root", "root_entry", "read_child"}
HeadFaults == {"head"}

Init ==
    /\ wt = {}
    /\ commits = <<>>
    /\ fault = "none"
    /\ line = <<>>
    /\ out = NoOut

\* fs::create_dir_all(path) and the files of s written into it; with a
\* .git, git init && git commit in it, which makes the commit s.head; with
\* a name, its record written to .gitmodules.  A record .gitmodules holds
\* for the path stays.
CreateDir(s) ==
    /\ out = NoOut
    /\ \A o \in wt : o.path = s.path => ~HasFiles(o)
    /\ LET old == {o \in wt : o.path = s.path /\ o.sub # NoSub}
           sub == IF s.sub # NoSub \/ old = {} THEN s.sub
                  ELSE (CHOOSE o \in old : TRUE).sub
       IN  wt' = Canon({o \in wt : o.path # s.path} \cup {[s EXCEPT !.sub = sub]})
    /\ out' = NoOut
    /\ UNCHANGED <<commits, fault, line>>

\* fs::remove_dir_all(path): the directory goes with all below it, its
\* parent stays, and so do the records of .gitmodules
RemoveDir(p) ==
    /\ out = NoOut
    /\ p \in Dirs(wt)
    /\ LET kept == {o \in wt : ~Below(o.path, p)}
           gone == {Gone(o.path, o.sub) : o \in {o \in wt : Below(o.path, p) /\ o.sub # NoSub}}
           parent == SubSeq(p, 1, Len(p) - 1)
           left == IF Len(p) = 1 \/ parent \in Dirs(kept) THEN kept
                   ELSE {o \in kept : o.path # parent}
                        \cup (IF \E o \in kept : o.path = parent
                              THEN {[o EXCEPT !.present = TRUE] : o \in {o \in kept : o.path = parent}}
                              ELSE {EmptyDir(parent)})
       IN  wt' = Canon(left \cup gone)
    /\ out' = NoOut
    /\ UNCHANGED <<commits, fault, line>>

\* an existing directory changed to what s says: files written or removed,
\* git init or rm -r .git, another commit made in its repository, the
\* record in .gitmodules written or removed
EditDir(s) ==
    /\ out = NoOut
    /\ \E o \in wt : o.path = s.path /\ o.present /\ HasFiles(o) /\ o # s
    /\ wt' = Canon({o \in wt : o.path # s.path} \cup {s})
    /\ out' = NoOut
    /\ UNCHANGED <<commits, fault, line>>

\* git add -A && git commit --allow-empty; on a branch without commit it
\* makes the root commit of that branch
Commit ==
    /\ out = NoOut
    /\ LET tree == TreeOf(Index(commits), wt)
       IN  commits' = IF fault = "head" THEN <<tree>>
                      ELSE IF Len(commits) < 2 THEN Append(commits, tree)
                      ELSE <<commits[2], tree>>
    /\ fault' = IF fault = "head" THEN "none" ELSE fault
    /\ out' = NoOut
    /\ UNCHANGED <<wt, line>>

\* the environment brings a failure about (chmod, a broken .gitmodules,
\* git checkout --orphan) or repairs it
SetFault(f) ==
    /\ out = NoOut
    /\ fault # f
    /\ fault' = f
    /\ out' = NoOut
    /\ UNCHANGED <<wt, commits, line>>

\* syspac list-packages -r repo_path
ListPackages(repo_path) ==
    /\ out = NoOut
    /\ \E all \in find_all_packages(wt, repo_path) :
        /\ out' = [NoOut EXCEPT !.op = "list", !.repo_path = repo_path,
                                !.packages = all.packages, !.ok = all.ok,
                                !.err = all.err]
        /\ UNCHANGED <<wt, commits, fault, line>>

\* git::detect_changed_packages(repo_path, base_ref)
DetectChanges(repo_path, base_ref) ==
    /\ out = NoOut
    /\ \E r \in detect_changed_packages(wt, commits, repo_path, base_ref) :
        /\ out' = [NoOut EXCEPT !.op = "detect", !.repo_path = repo_path,
                                !.base_ref = base_ref,
                                !.packages = r.all_packages, !.ok = r.ok,
                                !.err = r.err, !.mode = r.mode,
                                !.names = r.names]
        /\ UNCHANGED <<wt, commits, fault, line>>

\* the command's process ends
Exit ==
    /\ out # NoOut
    /\ out' = NoOut
    /\ UNCHANGED <<wt, commits, fault, line>>

Next ==
    \/ \E s \in DetectSites : CreateDir(s)
    \/ \E s \in DetectSites : RemoveDir(s.path)
    \/ \E s \in DetectSites : EditDir(s)
    \/ Commit
    \/ \E f \in HeadFaults \cup {"none"} : SetFault(f)
    \/ \E a \in DetectArgs : DetectChanges(a[1], a[2])
    \/ Exit

Spec == Init /\ [][Next]_vars

\* package discovery alone, over the larger choice of directories
NextDiscover ==
    \/ \E s \in WalkSites : Cardinality(wt) < MaxDirs /\ CreateDir(s)
    \/ \E s \in WalkSites : RemoveDir(s.path)
    \/ \E f \in ListFaults \cup {"none"} : SetFault(f)
    \/ \E rp \in RepoPaths : ListPackages(rp)
    \/ Exit

SpecDiscover == Init /\ [][NextDiscover]_vars

\* the directories the environment works with when the detect-changes
\* command runs
CommandSites ==
    {Site(<<S_foo>>, TRUE, FALSE, NoSub, 1)}
    \cup {Site(<<S_foobar, S_foo>>, TRUE, FALSE, NoSub, 1)}
    \cup {[Site(<<S_bar>>, TRUE, TRUE, S_bar, 1) EXCEPT !.head = h] : h \in 1..2}

\* the values of --format the command is run with
FormatArgs == Formats \cup {"xml"}

\* the command lines of detect-changes: every combination of the flags on
\* the repository with and without a base commit, and one line each for a
\* path that is no repository and for a base ref that names nothing
CommandLines ==
    {<<RepoRoot, b, all, paths, format>> :
        b \in {None, SomeOid(1)}, all \in BOOLEAN, paths \in BOOLEAN,
        format \in FormatArgs}
    \cup {<<Nonexistent, None, FALSE, FALSE, "space">>,
          <<RepoRoot, SomeRef("nosuchref"), FALSE, FALSE, "space">>}

\* syspac detect-changes -r repo_path [-b base_ref] [--all] [--paths]
\* [--format format]
DetectChangesCommand(repo_path, base_ref, all, paths, format) ==
    /\ out = NoOut
    /\ \E r \in detect_changes_command(wt, commits, repo_path, base_ref, all,
                                        paths, format) :
        /\ out' = [NoOut EXCEPT !.op = "detect-changes", !.repo_path = repo_path,
                                !.base_ref = base_ref, !.all = all,
                                !.paths = paths, !.format = format,
                                !.packages = r.all_packages,
                                !.ok = r.ok, !.err = r.err, !.mode = r.mode,
                                !.names = r.names, !.printed = r.printed,
                                !.output = r.output]
        /\ UNCHANGED <<wt, commits, fault, line>>

NextCommand ==
    \/ \E s \in CommandSites : CreateDir(s)
    \/ \E s \in CommandSites : RemoveDir(s.path)
    \/ \E s \in CommandSites : EditDir(s)
    \/ Commit
    \/ \E a \in CommandLines : DetectChangesCommand(a[1], a[2], a[3], a[4], a[5])
    \/ Exit

SpecCommand == Init /\ [][NextCommand]_vars

\* the bytes of the text after the prefix: blank, tab, both quotes, a digit
TextBytes == {32, 9, DoubleQuote, SingleQuote, 49}

\* the texts of at most n bytes
RECURSIVE Texts(_)
Texts(n) ==
    IF n = 0 THEN {<<>>}
    ELSE Texts(n - 1) \cup {Append(v, b) : v \in Texts(n - 1), b \in TextBytes}

\* a recipe line that assigns pkgver or pkgrel
InitExtract ==
    /\ wt = {}
    /\ commits = <<>>
    /\ fault = "none"
    /\ line \in {prefix \o v : prefix \in {S_pkgver, S_pkgrel}, v \in Texts(MaxLen)}
    /\ out = NoOut

\* extract_value(line, prefix), as parse_version_simple calls it
ExtractValue(prefix) ==
    /\ out = NoOut
    /\ starts_with(line, prefix)
    /\ LET r == extract_value(line, prefix)
       IN  out' = [NoOut EXCEPT !.op = "extract", !.prefix = prefix,
                               !.ok = ~r.panic, !.panic = r.panic,
                               !.value = r.value]
    /\ UNCHANGED <<wt, commits, fault, line>>

NextExtract ==
    \/ \E prefix \in {S_pkgver, S_pkgrel} : ExtractValue(prefix)
    \/ Exit

SpecExtract == InitExtract /\ [][NextExtract]_vars

(***************************************************************************)
(* Properties                                                              *)
(***************************************************************************)
Range(q) == {q[i] : i \in 1..Len(q)}

\* detect_changed_packages returned from the diff of base and HEAD
DiffState == out.op = "detect" /\ out.ok /\ out.mode = "diff"

HeadTree == commits[Len(commits)]

\* the commit the base of the finished run resolved to
BaseTree ==
    IF out.base_ref.some THEN commits[out.base_ref.oid]
    ELSE commits[Len(commits) - 1]

\* the paths a tree tracks
TreePaths(tree) == {e.path : e \in tree}

RemovedPaths == {to_string_lossy(f) : f \in TreePaths(BaseTree) \ TreePaths(HeadTree)}
AddedPaths == {to_string_lossy(f) : f \in TreePaths(HeadTree) \ TreePaths(BaseTree)}
ModifiedPaths ==
    {to_string_lossy(e.path) :
        e \in {e \in BaseTree \ HeadTree : e.path \in TreePaths(HeadTree)}}
ChangedPaths == RemovedPaths \cup AddedPaths \cup ModifiedPaths

\* the number of segments of a path string
Segments(c) == Cardinality({i \in 1..Len(c) : c[i] = S_slash[1]}) + 1

\* the first segment of a path string
RECURSIVE FirstSegment(_)
FirstSegment(c) ==
    IF c = <<>> \/ Head(c) = S_slash[1] THEN <<>>
    ELSE <<Head(c)>> \o FirstSegment(Tail(c))

\* C1: in the diff state, every discovered package with a changed path
\* inside its directory is in the result, also when another package's path
\* is a string prefix of its path.
C1_OwnerReported ==
    DiffState =>
        \A i \in 1..Len(out.packages) : \A c \in ChangedPaths :
            InsideDir(c, out.packages[i].path)
                => out.packages[i].name \in Range(out.names)

\* C2: in the diff state, when every changed path lies outside the
\* directory of every discovered package, the result is empty.
C2_OutsideEmpty ==
    (/\ DiffState
     /\ \A i \in 1..Len(out.packages) : \A c \in ChangedPaths :
            c # out.packages[i].path /\ ~InsideDir(c, out.packages[i].path))
        => out.names = <<>>

\* C3: when a file left the directory of package A and appeared in the
\* directory of package B, both discovered at HEAD, the result holds the
\* names of both.
C3_RenameBoth ==
    DiffState =>
        \A a, b \in 1..Len(out.packages) :
            (/\ out.packages[a].path # out.packages[b].path
             /\ \E f \in RemovedPaths : InsideDir(f, out.packages[a].path)
             /\ \E g \in AddedPaths : InsideDir(g, out.packages[b].path))
                => /\ out.packages[a].name \in Range(out.names)
                   /\ out.packages[b].name \in Range(out.names)

\* C4: without a base ref and with a HEAD commit that has no parent, the
\* call returns the names of the packages find_all_packages returns for the
\* working tree, one per package and in its order, and computes no diff.
C4_FirstCommitAll ==
    (/\ out.op = "detect"
     /\ out.repo_path = RepoRoot
     /\ ~out.base_ref.some
     /\ Len(commits) = 1)
        => /\ out.ok
           /\ out.mode = "full"
           /\ \E all \in find_all_packages(wt, RepoRoot) :
                 /\ all.ok
                 /\ Len(out.names) = Len(all.packages)
                 /\ \A i \in 1..Len(all.packages) : out.names[i] = all.packages[i].name

C4_Witness ==
    /\ out.op = "detect"
    /\ out.repo_path = RepoRoot
    /\ ~out.base_ref.some
    /\ Len(commits) = 1
    /\ Len(out.names) = 2
    /\ \E i \in 1..Len(out.packages) : out.packages[i].is_submodule
    /\ \E i \in 1..Len(out.packages) : out.packages[i].path # out.names[i]

\* C5: every successful result of detect_changed_packages is strictly
\* increasing in lexicographic order: sorted, and no name twice.
C5_SortedNoDuplicates ==
    (out.op = "detect" /\ out.ok)
        => \A i, j \in 1..Len(out.names) : i < j => StrLess(out.names[i], out.names[j])

\* the directories the environment can make a package of
SitePaths == {s.path : s \in DetectSites}

\* the walk found a package at p in the tree of a commit
WasPackage(tree, p) ==
    /\ JoinPath(p \o <<S_PKGBUILD>>) \in TreePaths(tree)
    /\ \A n \in 1..(Len(p) - 1) :
          JoinPath(SubSeq(p, 1, n) \o <<S_PKGBUILD>>) \notin TreePaths(tree)

\* C6: package P committed, its whole directory deleted, committed again:
\* discovery at HEAD does not hold P, and detection against the commit
\* before the deletion succeeds and does not hold P's name.
C6_RemovedNotReported ==
    \A p \in SitePaths :
        (/\ out.op = "detect"
         /\ out.repo_path = RepoRoot
         /\ Len(commits) = 2
         /\ out.base_ref = SomeOid(1)
         /\ fault = "none"
         /\ WasPackage(commits[1], p)
         /\ commits[2] = {e \in commits[1] : ~InsideDir(e.path, JoinPath(p))}
         /\ p \notin Dirs(wt))
            => /\ out.ok
               /\ \A i \in 1..Len(out.packages) : out.packages[i].path # PathStr(p)
               /\ FileNameOrUnknown(p) \notin Range(out.names)

\* list-packages returned the packages of the working tree
Listed == out.op = "list" /\ out.ok

\* s is a permutation of q
IsPermutation(s, q) ==
    /\ Len(s) = Len(q)
    /\ \A e \in Range(s) \cup Range(q) :
          Cardinality({i \in 1..Len(s) : s[i] = e}) = Cardinality({i \in 1..Len(q) : q[i] = e})

\* C7: the result of find_all_packages is the merge of the submodule
\* packages and the directory packages, each kept as often as it was found,
\* in non-decreasing order of name, whatever the enumeration orders.
C7_SortedMerge ==
    Listed =>
        /\ \A i, j \in 1..Len(out.packages) :
              i < j => StrLeq(out.packages[i].name, out.packages[j].name)
        /\ \E s \in find_submodule_packages(wt, RepoRoot) :
           \E d \in find_direct_packages(wt, RepoRoot) :
              IsPermutation(out.packages, s \o d)

C7_Witness ==
    /\ Listed
    /\ \E i, j \in 1..Len(out.packages) :
          /\ i < j
          /\ out.packages[i].name = out.packages[j].name
          /\ out.packages[i].is_submodule # out.packages[j].is_submodule
    /\ \E i, j \in 1..Len(out.packages) :
          /\ i < j
          /\ StrLess(out.packages[i].name, out.packages[j].name)
          /\ StrLess(out.packages[j].path, out.packages[i].path)

\* C8: a returned package whose directory holds a .git entry comes from
\* the submodule enumeration; the walk emits no such child or grandchild.
C8_MarkerOnlySubmodule ==
    Listed =>
        \A i \in 1..Len(out.packages) : \A s \in wt :
            (s.marker /\ PathStr(s.path) = out.packages[i].path)
                => out.packages[i].is_submodule

C8_Witness ==
    /\ Listed
    /\ \E s \in wt : s.marker /\ s.recipe /\ s.sub = NoSub /\ Len(s.path) = 1
    /\ \E s \in wt : /\ s.marker /\ s.recipe /\ s.sub = NoSub /\ Len(s.path) = 2
                     /\ ~is_submodule_dir(wt, SubSeq(s.path, 1, 1))
                     /\ ~PkgbuildExists(wt, SubSeq(s.path, 1, 1))
    /\ \E i \in 1..Len(out.packages) : \E s \in wt :
          /\ out.packages[i].is_submodule
          /\ s.marker /\ PathStr(s.path) = out.packages[i].path

\* C9 as stated: no returned package has a path of three or more segments.
C9_NoDeepPackage ==
    Listed => \A i \in 1..Len(out.packages) : Segments(out.packages[i].path) <= 2

\* C9 amended: no package of the directory walk (is_submodule = false) has
\* a path of three or more segments; a recipe three levels deep is returned
\* only for a registered submodule.
C9_WalkDepth ==
    Listed =>
        \A i \in 1..Len(out.packages) :
            ~out.packages[i].is_submodule => Segments(out.packages[i].path) <= 2

C9_Witness ==
    /\ Listed
    /\ \E s \in wt : /\ Len(s.path) = 3 /\ s.recipe /\ s.sub = NoSub /\ ~s.marker
                     /\ \A n \in 1..2 : /\ ~PkgbuildExists(wt, SubSeq(s.path, 1, n))
                                        /\ ~is_submodule_dir(wt, SubSeq(s.path, 1, n))
    /\ \E i \in 1..Len(out.packages) :
          ~out.packages[i].is_submodule /\ Segments(out.packages[i].path) = 2

\* C10: the walk emits no package whose first path segment starts with "."
\* or is target, node_modules, build-container or repo.
C10_SkippedNames ==
    Listed =>
        \A i \in 1..Len(out.packages) :
            ~out.packages[i].is_submodule =>
                LET first == FirstSegment(out.packages[i].path)
                IN  /\ ~starts_with(first, S_dot)
                    /\ first \notin {S_target, S_node_modules, S_build_container, S_repo}

\* C11 as stated: list-packages fails only when the repository does not
\* open; with the repository open, an unreadable root listing, root entry,
\* child listing or submodule list is skipped and the call returns the
\* packages of the readable rest.
C11_OnlyOpenFails ==
    (out.op = "list" /\ RepositoryOpen(out.repo_path)) => out.ok

\* the revision text names a commit of the repository
NamesCommit(cs, b) ==
    \/ b.ref = "oid" /\ b.oid \in 1..Len(cs)
    \/ b.ref = "HEAD" /\ cs # <<>> /\ fault # "head"
    \/ b.ref = "HEAD~1" /\ Len(cs) >= 2 /\ fault # "head"

\* C12: with an explicit base ref that does not resolve to a commit the
\* call returns an error: no full rebuild, no names, whatever HEAD and the
\* working tree are.
C12_BadBaseIsError ==
    (/\ out.op = "detect"
     /\ out.base_ref.some
     /\ ~NamesCommit(commits, out.base_ref))
        => /\ ~out.ok
           /\ out.mode = ""
           /\ out.names = <<>>

\* a base ref that names a tree, on a root commit with packages, where a
\* call without base ref returns the full rebuild
C12_Witness ==
    /\ out.op = "detect"
    /\ out.repo_path = RepoRoot
    /\ out.base_ref = SomeRef("HEAD^{tree}")
    /\ Len(commits) = 1
    /\ fault = "none"
    /\ out.packages # <<>>
    /\ out.err = "peel_base"

\* HEAD cannot be read or peeled to a commit
HeadUnborn == commits = <<>> \/ fault = "head"

\* C13 as stated: with HEAD unborn the call returns an error and no names,
\* with and without a base ref.
C13_UnbornHeadIsError ==
    (out.op = "detect" /\ HeadUnborn) => (~out.ok /\ out.names = <<>>)

\* C13 amended: with HEAD unborn and a base ref given the call returns an
\* error and no names; without a base ref it fails only when discovery
\* fails, and else returns the full rebuild, the names of all packages.
C13_UnbornHead ==
    (out.op = "detect" /\ HeadUnborn) =>
        IF out.base_ref.some \/ ~RepositoryOpen(out.repo_path)
        THEN ~out.ok /\ out.names = <<>>
        ELSE \/ ~out.ok /\ out.err \in ListFaults /\ out.names = <<>>
             \/ /\ out.ok
                /\ out.mode = "full"
                /\ out.names = NamesOf(out.packages)

\* HEAD on a branch without commit, the base ref naming an earlier commit:
\* the error comes from reading HEAD
C13_Witness ==
    /\ out.op = "detect"
    /\ fault = "head"
    /\ out.base_ref = SomeOid(1)
    /\ Len(commits) >= 1
    /\ out.packages # <<>>
    /\ out.err = "head"

\* the text V after the prefix of the line
TextAfterPrefix == SubSeq(line, Len(out.prefix) + 1, Len(line))

\* the text without its blanks at both ends
RECURSIVE Stripped(_)
Stripped(v) ==
    IF v = <<>> THEN v
    ELSE IF IsWhitespace(v[1]) THEN Stripped(SubSeq(v, 2, Len(v)))
    ELSE IF IsWhitespace(v[Len(v)]) THEN Stripped(SubSeq(v, 1, Len(v) - 1))
    ELSE v

\* C15: for every text V after the prefix, extract_value returns a value:
\* the trimmed V without one pair of surrounding quotes when it starts and
\* ends with two distinct occurrences of the same quote character, and the
\* trimmed V unchanged otherwise, a single quote character included.
C15_ExtractValue ==
    out.op = "extract" =>
        LET v == Stripped(TextAfterPrefix) IN
        /\ ~out.panic
        /\ out.value =
              IF /\ Len(v) >= 2
                 /\ v[1] = v[Len(v)]
                 /\ v[1] \in {DoubleQuote, SingleQuote}
              THEN SubSeq(v, 2, Len(v) - 1)
              ELSE v

\* the detect-changes command ran without --all and printed its output
Printed == out.op = "detect-changes" /\ ~out.all /\ out.ok

\* C14: a second call of detect_changed_packages on the unchanged
\* repository with the same base ref returns the same name sequence as the
\* first, whatever order the directory listings, the submodule list and the
\* hash set deliver their elements in.
C14_SameNames ==
    Printed =>
        \A r \in detect_changed_packages(wt, commits, out.repo_path, out.base_ref) :
            r.ok /\ r.names = out.names

\* two names come out of the hash set, and the enumeration orders give
\* discovery more than one result
C14_Witness ==
    /\ Printed
    /\ out.mode = "diff"
    /\ Len(out.names) >= 2
    /\ \E r1, r2 \in detect_changed_packages(wt, commits, out.repo_path, out.base_ref) :
          r1.all_packages # r2.all_packages

\* C16: without --all and in the diff state, every printed entry belongs
\* to a discovered package whose path is a prefix of a changed path, and the
\* packages of one name are printed no more often than
\* detect_changed_packages returned that name.
C16_PrintedChanged ==
    (Printed /\ out.mode = "diff") =>
        /\ \A i \in 1..Len(out.output) :
              \E k \in 1..Len(out.packages) :
                 /\ out.output[i] = IF out.paths THEN out.packages[k].path
                                    ELSE out.packages[k].name
                 /\ out.printed[i] = out.packages[k]
                 /\ \E c \in ChangedPaths : starts_with(c, out.packages[k].path)
        /\ \A i \in 1..Len(out.printed) :
              Cardinality({j \in 1..Len(out.printed) :
                              out.printed[j].name = out.printed[i].name})
                 <= Cardinality({j \in 1..Len(out.names) :
                                    out.names[j] = out.printed[i].name})

====
